---------------------------- MODULE Spec2Model ----------------------------
(***************************************************************************)
(* A model of the ringbuffer package: the byte ring (Ring), the fixed      *)
(* ring of values (RingP), the growing ring of references (RingT) and the  *)
(* weight-bounded ring of references (WeightedRingT).                      *)
(*                                                                         *)
(* Go slices are 0-indexed; they are modelled as sequences, slot i of a    *)
(* slice being element i + 1 of the sequence (At, Put).  A nil reference   *)
(* and the zero value of an element type are both modelled as 0; elements  *)
(* are identified by the id the tests give them (100, 101, ...), which     *)
(* loses nothing because the rings never inspect an element.               *)
(***************************************************************************)
EXTENDS Integers, Sequences, FiniteSets, TLC

(***************************************************************************)
(* Unsigned arithmetic.  Go's uint wraps modulo 2^64; TLC's integers are   *)
(* 32 bits wide, so the word is scaled down to 16 bits.  Every index and   *)
(* every array length of the model stays far below 2^15, so the only       *)
(* wrap-arounds are the intended ones: head - tail with head < tail, and   *)
(* len - 1 with len = 0.                                                   *)
(***************************************************************************)
UintMod == 2 ^ 16

USub(a, b) == (a - b) % UintMod

UAdd(a, b) == (a + b) % UintMod

\* uint(i) of an int i (two's complement reinterpretation)
ToUint(i) == i % UintMod

\* int(u) of a uint u (two's complement reinterpretation)
ToInt(u) == IF u >= UintMod \div 2 THEN u - UintMod ELSE u

RECURSIVE BitAnd(_, _)
\* x & y on unsigned words
BitAnd(x, y) ==
    IF x = 0 \/ y = 0 THEN 0
    ELSE (x % 2) * (y % 2) + 2 * BitAnd(x \div 2, y \div 2)

\* s[i] of a slice
At(s, i) == s[i + 1]

\* s[i] = v on a slice
Put(s, i, v) == [s EXCEPT ![i + 1] = v]

\* make([]T, n): n zero values
Zeros(n) == [i \in 1..n |-> 0]

\* s[lo:hi] of a slice
Slice(s, lo, hi) == SubSeq(s, lo + 1, hi)

Min(a, b) == IF a < b THEN a ELSE b

\* copy(dst, src) where dst is the window [lo, lo + dstLen) of data:
\* copies min(len(dst), len(src)) elements
CopyInto(data, lo, dstLen, src) ==
    LET n == Min(dstLen, Len(src))
    IN  [i \in 1..Len(data) |->
            IF i - 1 >= lo /\ i - 1 < lo + n THEN src[i - lo] ELSE data[i]]

\* The element of a one-element set.  The({e(x) : x \in {v}}) is e with x
\* naming the value v, which is then computed once.
The(S) == CHOOSE x \in S : TRUE

IsPrefix(s, t) == Len(s) <= Len(t) /\ SubSeq(t, 1, Len(s)) = s

(***************************************************************************)
(* Ring: the byte ring.  A ring is a record [head, tail, data].            *)
(***************************************************************************)
DefaultSize == 64

\* The zero value of Ring
Ring_Zero == [head |-> 0, tail |-> 0, data |-> <<>>]

Ring_end(r) == Len(r.data)

Ring_mask(r) == USub(Len(r.data), 1)

\* Variant of Len: the difference of head and tail, not masked
Ring_Len_NoMask(r) == ToInt(USub(r.head, r.tail))

Ring_Len(r) == ToInt(BitAnd(USub(r.head, r.tail), Ring_mask(r)))

RECURSIVE Ring_growCap_Linear(_, _)
\* Variant of the loop: for cap < needCap { cap += DefaultSize }
Ring_growCap_Linear(cap, needCap) ==
    IF cap < needCap
    THEN Ring_growCap_Linear((cap + DefaultSize) % UintMod, needCap)
    ELSE cap

RECURSIVE Ring_growCap(_, _)
\* for cap < needCap { cap *= 2 }
Ring_growCap(cap, needCap) ==
    IF cap < needCap THEN Ring_growCap((cap * 2) % UintMod, needCap) ELSE cap

\* Variant of ensureCapacity: grows, and leaves a wrapped prefix where it was
Ring_ensureCapacity_NoFixup(r, forBytes) ==
    The({ IF needCap <= Len(r.data) THEN r
          ELSE LET orgCap == Len(r.data)
                   cap0   == IF orgCap < DefaultSize THEN DefaultSize ELSE orgCap
                   cap    == Ring_growCap(cap0, needCap)
                   extra  == ToInt(USub(cap, orgCap))
               IN  [r EXCEPT !.data = r.data \o Zeros(extra)]
          : needCap \in {UAdd(UAdd(forBytes, ToUint(Ring_Len(r))), 1)} })

\* Variant of ensureCapacity: moves a wrapped prefix and leaves head where
\* it was
Ring_ensureCapacity_NoHeadAdvance(r, forBytes) ==
    The({ IF needCap <= Len(r.data) THEN r
          ELSE LET orgCap == Len(r.data)
                   cap0   == IF orgCap < DefaultSize THEN DefaultSize ELSE orgCap
                   cap    == Ring_growCap(cap0, needCap)
                   extra  == ToInt(USub(cap, orgCap))
               IN  The({ IF r.head < r.tail
                         THEN [r EXCEPT !.data = CopyInto(grown, orgCap, r.head,
                                                          Slice(grown, 0, r.head))]
                         ELSE [r EXCEPT !.data = grown]
                         : grown \in {r.data \o Zeros(extra)} })
          : needCap \in {UAdd(UAdd(forBytes, ToUint(Ring_Len(r))), 1)} })

Ring_ensureCapacity(r, forBytes) ==
    The({ IF needCap <= Len(r.data) THEN r
          ELSE LET orgCap == Len(r.data)
                   cap0   == IF orgCap < DefaultSize THEN DefaultSize ELSE orgCap
                   cap    == Ring_growCap(cap0, needCap)
                   extra  == ToInt(USub(cap, orgCap))
               IN  The({ IF r.head < r.tail
                         THEN [r EXCEPT !.data = CopyInto(grown, orgCap, r.head,
                                                          Slice(grown, 0, r.head)),
                                        !.head = UAdd(r.head, orgCap)]
                         ELSE [r EXCEPT !.data = grown]
                         : grown \in {r.data \o Zeros(extra)} })
          : needCap \in {UAdd(UAdd(forBytes, ToUint(Ring_Len(r))), 1)} })

\* Variant of DirectWrite: head advances by the bytes asked for, not by the
\* length of the slice
Ring_DirectWrite_AdvanceByRequest(r, numBytes) ==
    The({ LET room == ToInt(USub(Ring_end(r1), r1.head))
              n    == IF room < numBytes THEN room ELSE numBytes
          IN  [r  |-> [r1 EXCEPT !.head = BitAnd(UAdd(r1.head, ToUint(numBytes)),
                                                 Ring_mask(r1))],
               lo |-> r1.head,
               n  |-> n,
               ens |-> r1]
          : r1 \in {Ring_ensureCapacity(r, ToUint(Ring_Len(r) + numBytes))} })

\* Variant of DirectWrite: capacity is ensured for the bytes held, not for
\* the bytes asked for
Ring_DirectWrite_NoRoom(r, numBytes) ==
    The({ LET room == ToInt(USub(Ring_end(r1), r1.head))
              n    == IF room < numBytes THEN room ELSE numBytes
          IN  [r  |-> [r1 EXCEPT !.head = BitAnd(UAdd(r1.head, ToUint(n)),
                                                 Ring_mask(r1))],
               lo |-> r1.head,
               n  |-> n,
               ens |-> r1]
          : r1 \in {Ring_ensureCapacity(r, 0)} })

\* DirectWrite returns the ring afterwards and the slice it hands out, as
\* the window [lo, lo + n) of the ring's data
Ring_DirectWrite(r, numBytes) ==
    The({ LET room == ToInt(USub(Ring_end(r1), r1.head))
              n    == IF room < numBytes THEN room ELSE numBytes
          IN  [r  |-> [r1 EXCEPT !.head = BitAnd(UAdd(r1.head, ToUint(n)),
                                                 Ring_mask(r1))],
               lo |-> r1.head,
               n  |-> n,
               \* the ring as ensureCapacity left it
               ens |-> r1]
          : r1 \in {Ring_ensureCapacity(r, ToUint(Ring_Len(r) + numBytes))} })

\* Variant of DirectRead: numBytes is not clamped to Len()
Ring_DirectRead_NoLenClamp(r, numBytes) ==
    The({ LET n1    == numBytes
              toEnd == ToInt(USub(Ring_end(r), r.tail))
              n2    == IF n1 > toEnd THEN toEnd ELSE n1
          IN  IF n2 <= 0 THEN [r |-> r, res |-> <<>>]
              ELSE [r   |-> [r EXCEPT !.tail = BitAnd(UAdd(r.tail, ToUint(n2)),
                                                      Ring_mask(r))],
                    res |-> Slice(r.data, r.tail, r.tail + n2)]
          : len \in {Ring_Len(r)} })

\* DirectRead returns the ring afterwards and the bytes of the slice
Ring_DirectRead(r, numBytes) ==
    The({ LET n1    == IF numBytes > len THEN len ELSE numBytes
              toEnd == ToInt(USub(Ring_end(r), r.tail))
              n2    == IF n1 > toEnd THEN toEnd ELSE n1
          IN  IF n2 <= 0 THEN [r |-> r, res |-> <<>>]
              ELSE [r   |-> [r EXCEPT !.tail = BitAnd(UAdd(r.tail, ToUint(n2)),
                                                      Ring_mask(r))],
                    res |-> Slice(r.data, r.tail, r.tail + n2)]
          : len \in {Ring_Len(r)} })

\* Variant of Read: end of data whenever nothing was copied
Ring_Read_EOFOnZero(r, bufLen) ==
    The({ The({ LET total == Len(d1.res) + Len(d2.res)
                IN  [r   |-> d2.r,
                     buf |-> d1.res \o d2.res,
                     n   |-> total,
                     err |-> IF total = 0 THEN "EOF" ELSE "nil"]
                : d2 \in {Ring_DirectRead(d1.r, bufLen - Len(d1.res))} })
          : d1 \in {Ring_DirectRead(r, bufLen)} })

\* Read(b) with len(b) = bufLen: the ring afterwards, the bytes copied to
\* the front of b, and the results (n, err)
Ring_Read(r, bufLen) ==
    The({ The({ LET total == Len(d1.res) + Len(d2.res)
                IN  [r   |-> d2.r,
                     buf |-> d1.res \o d2.res,
                     n   |-> total,
                     err |-> IF total = 0 /\ Ring_Len(d2.r) = 0
                             THEN "EOF" ELSE "nil"]
                : d2 \in {Ring_DirectRead(d1.r, bufLen - Len(d1.res))} })
          : d1 \in {Ring_DirectRead(r, bufLen)} })

\* Variant of Write: a single DirectWrite, the remainder is dropped
Ring_Write_NoSecond(r, b) ==
    The({ [r   |-> [d1.r EXCEPT !.data = CopyInto(d1.r.data, d1.lo, d1.n, b)],
           n   |-> Len(b),
           err |-> "nil"]
          : d1 \in {Ring_DirectWrite(r, Len(b))} })

\* Write(b): the ring afterwards and the results (n, err)
Ring_Write(r, b) ==
    The({ The({ [r   |-> IF d1.n # Len(b)
                         THEN The({ [d2.r EXCEPT !.data =
                                        CopyInto(d2.r.data, d2.lo, d2.n,
                                                 SubSeq(b, d1.n + 1, Len(b)))]
                                    : d2 \in {Ring_DirectWrite(r1, Len(b) - d1.n)} })
                         ELSE r1,
                 n   |-> Len(b),
                 err |-> "nil"]
                : r1 \in {[d1.r EXCEPT !.data = CopyInto(d1.r.data, d1.lo, d1.n, b)]} })
          : d1 \in {Ring_DirectWrite(r, Len(b))} })

\* ringContent of the tests: the unread bytes, oldest first
Ring_Content(r) ==
    IF r.head >= r.tail THEN Slice(r.data, r.tail, r.head)
    ELSE Slice(r.data, r.tail, Ring_end(r)) \o Slice(r.data, 0, r.head)

(***************************************************************************)
(* RingP: the fixed ring of values.  A ring is a record                    *)
(* [items, mask, tail, head]; the zero value of T is 0.                    *)
(***************************************************************************)
\* The condition under which NewRingP panics
\* Variant of the condition of NewRingP: the test of the bits alone
NewRingP_panics_BitsOnly(sizePlus1) ==
    BitAnd(ToUint(sizePlus1), ToUint(sizePlus1 - 1)) # 0

NewRingP_panics(sizePlus1) ==
    BitAnd(ToUint(sizePlus1), ToUint(sizePlus1 - 1)) # 0 \/ sizePlus1 < 2

NewRingP(sizePlus1) ==
    [items |-> Zeros(sizePlus1),
     mask  |-> USub(ToUint(sizePlus1), 1),
     tail  |-> 0,
     head  |-> 0]

RingP_Capacity(r) == ToInt(r.mask)

RingP_Len(r) == ToInt(BitAnd(USub(r.head, r.tail), r.mask))

RingP_IsFull(r) == RingP_Len(r) = ToInt(r.mask)

\* Next returns the ring afterwards and the item
RingP_Next(r) ==
    IF RingP_Len(r) = 0 THEN [r |-> r, item |-> 0]
    ELSE [r    |-> [r EXCEPT !.tail = BitAnd(UAdd(r.tail, 1), r.mask)],
          item |-> At(r.items, r.tail)]

\* Variant of Peek: the index equal to the length is let through
RingP_Peek_OffByOne(r, i) ==
    LET length == BitAnd(USub(r.head, r.tail), r.mask)
        ui     == ToUint(i)
    IN  IF ui > length THEN 0
        ELSE At(r.items, BitAnd(UAdd(r.tail, ui), r.mask))

RingP_Peek(r, i) ==
    LET length == BitAnd(USub(r.head, r.tail), r.mask)
        ui     == ToUint(i)
    IN  IF ui >= length THEN 0
        ELSE At(r.items, BitAnd(UAdd(r.tail, ui), r.mask))

\* Variant of Add: writes at head without erasing the oldest item of a full ring
RingP_Add_NoEvict(r, item) ==
    [r EXCEPT !.items = Put(r.items, r.head, item),
              !.head  = BitAnd(UAdd(r.head, 1), r.mask)]

RingP_Add(r, item) ==
    The({ [r1 EXCEPT !.items = Put(r1.items, r1.head, item),
                     !.head  = BitAnd(UAdd(r1.head, 1), r1.mask)]
          : r1 \in {IF RingP_IsFull(r) THEN RingP_Next(r).r ELSE r} })

\* Peek(0) .. Peek(Len() - 1), oldest first
RingP_Content(r) == [i \in 1..RingP_Len(r) |-> RingP_Peek(r, i - 1)]

(***************************************************************************)
(* RingT: the growing, size-bounded ring of references.  A ring is a       *)
(* record [items, mask, tail, head, maxSize]; nil is 0.                    *)
(***************************************************************************)
\* The condition under which NewRingT panics
NewRingT_panics(maxSize) == maxSize < 1

NewRingT(maxSize) ==
    [items |-> <<>>, mask |-> 0, tail |-> 0, head |-> 0, maxSize |-> maxSize]

RingT_MaxSize(r) == r.maxSize

RingT_Len(r) == ToInt(BitAnd(USub(r.head, r.tail), r.mask))

RingT_IsFull(r) == RingT_Len(r) = r.maxSize

\* Next returns the ring afterwards and the item
\* Variant of Next: the slot at tail keeps its reference
RingT_Next_NoClear(r) ==
    IF RingT_Len(r) = 0 THEN [r |-> r, item |-> 0]
    ELSE [r    |-> [r EXCEPT !.tail  = BitAnd(UAdd(r.tail, 1), r.mask)],
          item |-> At(r.items, r.tail)]

RingT_Next(r) ==
    IF RingT_Len(r) = 0 THEN [r |-> r, item |-> 0]
    ELSE [r    |-> [r EXCEPT !.tail  = BitAnd(UAdd(r.tail, 1), r.mask),
                             !.items = Put(r.items, r.tail, 0)],
          item |-> At(r.items, r.tail)]

\* Variant of Peek: counts from the newest element backwards
RingT_Peek_NewestFirst(r, i) ==
    LET length == BitAnd(USub(r.head, r.tail), r.mask)
        ui     == ToUint(i)
    IN  IF ui >= length THEN 0
        ELSE At(r.items, BitAnd(USub(USub(r.head, 1), ui), r.mask))

RingT_Peek(r, i) ==
    LET length == BitAnd(USub(r.head, r.tail), r.mask)
        ui     == ToUint(i)
    IN  IF ui >= length THEN 0
        ELSE At(r.items, BitAnd(UAdd(r.tail, ui), r.mask))

RECURSIVE RingT_drain(_, _, _, _)
\* for i := 0; i < n; i++ { item := r.Next(); newItems[i] = item }
RingT_drain(r, newItems, i, n) ==
    IF i < n
    THEN The({ RingT_drain(nx.r, Put(newItems, i, nx.item), i + 1, n)
               : nx \in {RingT_Next(r)} })
    ELSE [r |-> r, newItems |-> newItems]

\* Variant of the growth branch: tail stays where the drain left it
RingT_grow_KeepTail(r) ==
    LET newSize == IF Len(r.items) * 2 < 2 THEN 2 ELSE Len(r.items) * 2
    IN  The({ The({ [d.r EXCEPT !.items = d.newItems,
                                !.mask  = USub(ToUint(newSize), 1),
                                !.head  = ToUint(n)]
                    : d \in {RingT_drain(r, Zeros(newSize), 0, n)} })
              : n \in {RingT_Len(r)} })

\* The body of Add's "need to grow array" branch
RingT_grow(r) ==
    LET newSize == IF Len(r.items) * 2 < 2 THEN 2 ELSE Len(r.items) * 2
    IN  The({ The({ [d.r EXCEPT !.items = d.newItems,
                                !.mask  = USub(ToUint(newSize), 1),
                                !.tail  = 0,
                                !.head  = ToUint(n)]
                    : d \in {RingT_drain(r, Zeros(newSize), 0, n)} })
              : n \in {RingT_Len(r)} })

\* Variant of Add: never erases the oldest item, whatever maxSize is
RingT_Add_NoEvict(r, item) ==
    The({ [r2 EXCEPT !.items = Put(r2.items, r2.head, item),
                     !.head  = BitAnd(UAdd(r2.head, 1), r2.mask)]
          : r2 \in {IF Len(r.items) = 0 \/ RingT_Len(r) = Len(r.items) - 1
                    THEN RingT_grow(r) ELSE r} })

\* Add's first statement: if r.Len() == r.maxSize { r.Next() }
RingT_Add_evicted(r) ==
    IF RingT_Len(r) = r.maxSize THEN RingT_Next(r).r ELSE r

\* Add's second statement, on the ring the first one leaves:
\* if len(r.items) == 0 || r.Len() == len(r.items)-1 { grow }
RingT_Add_grown(r1) ==
    IF Len(r1.items) = 0 \/ RingT_Len(r1) = Len(r1.items) - 1
    THEN RingT_grow(r1) ELSE r1

\* Variant of Add: the array grows before the eviction at maxSize
RingT_Add_GrowFirst(r, item) ==
    The({ The({ [r2 EXCEPT !.items = Put(r2.items, r2.head, item),
                           !.head  = BitAnd(UAdd(r2.head, 1), r2.mask)]
                : r2 \in {RingT_Add_evicted(r1)} })
          : r1 \in {RingT_Add_grown(r)} })

RingT_Add(r, item) ==
    The({ The({ [r2 EXCEPT !.items = Put(r2.items, r2.head, item),
                           !.head  = BitAnd(UAdd(r2.head, 1), r2.mask)]
                : r2 \in {RingT_Add_grown(r1)} })
          : r1 \in {RingT_Add_evicted(r)} })

\* Peek(0) .. Peek(Len() - 1), oldest first
RingT_Content(r) == [i \in 1..RingT_Len(r) |-> RingT_Peek(r, i - 1)]

(***************************************************************************)
(* WeightedRingT: the weight-bounded ring of references.  A ring is a      *)
(* record [MaxWeight, weight, items, weights, tail, head]; nil is 0.       *)
(***************************************************************************)
NewWeightedRingT(maxWeight) ==
    [MaxWeight |-> maxWeight, weight |-> 0, items |-> <<>>, weights |-> <<>>,
     tail |-> 0, head |-> 0]

WeightedRingT_mask(r) == USub(Len(r.items), 1)

WeightedRingT_Len(r) ==
    ToInt(BitAnd(USub(r.head, r.tail), WeightedRingT_mask(r)))

WeightedRingT_Weight(r) == r.weight

\* Next returns the ring afterwards and (haveItem, item, weight)
WeightedRingT_Next(r) ==
    IF WeightedRingT_Len(r) = 0
    THEN [r |-> r, haveItem |-> FALSE, item |-> 0, weight |-> 0]
    ELSE [r |-> [r EXCEPT !.tail   = BitAnd(UAdd(r.tail, 1), WeightedRingT_mask(r)),
                          !.weight = r.weight - At(r.weights, r.tail),
                          !.items  = Put(r.items, r.tail, 0)],
          haveItem |-> TRUE,
          item     |-> At(r.items, r.tail),
          weight   |-> At(r.weights, r.tail)]

RECURSIVE WeightedRingT_drain(_, _, _, _, _)
\* for i := 0; i < n; i++ { _, item, w := r.Next(); newItems[i] = item;
\* newWeights[i] = w }
WeightedRingT_drain(r, newItems, newWeights, i, n) ==
    IF i < n
    THEN The({ WeightedRingT_drain(nx.r, Put(newItems, i, nx.item),
                                   Put(newWeights, i, nx.weight), i + 1, n)
               : nx \in {WeightedRingT_Next(r)} })
    ELSE [r |-> r, newItems |-> newItems, newWeights |-> newWeights]

\* Variant of the growth branch: the running weight is not restored after
\* the drain
WeightedRingT_grow_NoRestore(r) ==
    LET newSize == IF Len(r.items) * 2 < 4 THEN 4 ELSE Len(r.items) * 2
    IN  The({ The({ [d.r EXCEPT !.items   = d.newItems,
                                !.weights = d.newWeights,
                                !.tail    = 0,
                                !.head    = ToUint(n)]
                    : d \in {WeightedRingT_drain(r, Zeros(newSize), Zeros(newSize),
                                                 0, n)} })
              : n \in {WeightedRingT_Len(r)} })

\* The body of Add's "need to grow array" branch
WeightedRingT_grow(r) ==
    LET newSize   == IF Len(r.items) * 2 < 4 THEN 4 ELSE Len(r.items) * 2
        orgWeight == r.weight
    IN  The({ The({ [d.r EXCEPT !.items   = d.newItems,
                                !.weights = d.newWeights,
                                !.tail    = 0,
                                !.head    = ToUint(n),
                                !.weight  = orgWeight]
                    : d \in {WeightedRingT_drain(r, Zeros(newSize), Zeros(newSize),
                                                 0, n)} })
              : n \in {WeightedRingT_Len(r)} })

RECURSIVE WeightedRingT_evict_Eager(_, _)
\* Variant of the eviction loop: >= in place of >
WeightedRingT_evict_Eager(r, weight) ==
    IF r.weight + weight >= r.MaxWeight /\ WeightedRingT_Len(r) # 0
    THEN The({ WeightedRingT_evict_Eager(nx.r, weight)
               : nx \in {WeightedRingT_Next(r)} })
    ELSE r

\* Variant of the eviction loop: an if in place of the for
WeightedRingT_evict_Once(r, weight) ==
    IF r.weight + weight > r.MaxWeight /\ WeightedRingT_Len(r) # 0
    THEN WeightedRingT_Next(r).r
    ELSE r

RECURSIVE WeightedRingT_evict(_, _)
\* for r.weight+weight > r.MaxWeight && r.Len() != 0 { r.Next() }
WeightedRingT_evict(r, weight) ==
    IF r.weight + weight > r.MaxWeight /\ WeightedRingT_Len(r) # 0
    THEN The({ WeightedRingT_evict(nx.r, weight)
               : nx \in {WeightedRingT_Next(r)} })
    ELSE r

\* Variant of Add: the weight is added to the total and not stored in its slot
WeightedRingT_Add_NoWeightStore(r, weight, item) ==
    The({ The({ [r2 EXCEPT !.items   = Put(r2.items, r2.head, item),
                           !.weight  = r2.weight + weight,
                           !.head    = BitAnd(UAdd(r2.head, 1),
                                              WeightedRingT_mask(r2))]
                : r2 \in {WeightedRingT_evict(r1, weight)} })
          : r1 \in {IF Len(r.items) = 0 \/ WeightedRingT_Len(r) = Len(r.items) - 1
                    THEN WeightedRingT_grow(r) ELSE r} })

\* Add's first statement:
\* if len(r.items) == 0 || r.Len() == len(r.items)-1 { grow }
WeightedRingT_Add_grown(r) ==
    IF Len(r.items) = 0 \/ WeightedRingT_Len(r) = Len(r.items) - 1
    THEN WeightedRingT_grow(r) ELSE r

WeightedRingT_Add(r, weight, item) ==
    The({ The({ [r2 EXCEPT !.items   = Put(r2.items, r2.head, item),
                           !.weights = Put(r2.weights, r2.head, weight),
                           !.weight  = r2.weight + weight,
                           !.head    = BitAnd(UAdd(r2.head, 1),
                                              WeightedRingT_mask(r2))]
                : r2 \in {WeightedRingT_evict(r1, weight)} })
          : r1 \in {WeightedRingT_Add_grown(r)} })

\* Peek(i), called by TestWeightedRingT: (exists, item, weight) of the i-th
\* oldest element, (FALSE, nil, 0) for any other i
WeightedRingT_Peek(r, i) ==
    IF i < 0 \/ i >= WeightedRingT_Len(r)
    THEN [exists |-> FALSE, item |-> 0, weight |-> 0]
    ELSE LET j == BitAnd(UAdd(r.tail, ToUint(i)), WeightedRingT_mask(r))
         IN  [exists |-> TRUE, item |-> At(r.items, j), weight |-> At(r.weights, j)]

\* The live elements with their weights, oldest first
WeightedRingT_Content(r) ==
    [i \in 1..WeightedRingT_Len(r) |->
        LET j == BitAnd(UAdd(r.tail, i - 1), WeightedRingT_mask(r))
        IN  <<At(r.items, j), At(r.weights, j)>>]

(***************************************************************************)
(* State.  One ring of each kind, and what a test harness keeps beside it: *)
(* the reference lists (the `val` slices of the tests), the bytes handed   *)
(* to and returned by the byte ring, and the last call with its results.   *)
(***************************************************************************)
VARIABLES
    ring,       \* the Ring
    wrote,      \* all bytes given to Write so far, in order
    got,        \* all bytes returned by Read so far, in order
    ringP,      \* the RingP
    sizePlus1,  \* the argument NewRingP was called with
    refP,       \* TestRingP's val
    addedP,     \* every value added to ringP, in order
    onlyAdds,   \* no Next has been called on ringP
    ringT,      \* the RingT
    refT,       \* TestRingT's val
    ringW,      \* the WeightedRingT
    refW,       \* TestWeightedRingT's val, as <<id, weight>> pairs
    nextID,     \* the tests' nextID
    last        \* the last call: its name, arguments, results, the ring before

vars == <<ring, wrote, got, ringP, sizePlus1, refP, addedP, onlyAdds,
          ringT, refT, ringW, refW, nextID, last>>

varsByte == <<ring, wrote, got>>
varsP    == <<ringP, sizePlus1, refP, addedP, onlyAdds>>
varsT    == <<ringT, refT>>
varsW    == <<ringW, refW>>

\* Bounds of the model
MaxBytes == 130
MaxAddsP == 10
MaxAddsT == 10
MaxAddsW == 5
MaxArg   == 33

\* len(b) of the calls to Write and Read
Lens == {0, 5, 60}

\* numBytes of the calls to DirectWrite and DirectRead: TestDirectWrite
\* writes 59 = DefaultSize - 5 bytes, reads them, and asks for 9
DirectWriteLens == {0, 9, 59}
DirectReadLens  == {-1, 0, 5, 59}

\* makeTruth of the tests: byte i of the stream written
Truth(i) == (i + 1) % 251

\* truth[lo:lo+n]
TruthSlice(lo, n) == [i \in 1..n |-> Truth(lo + i - 1)]

\* The arguments the rings are constructed with
SizesP     == {2, 4, 8}
MaxSizes   == {1, 2, 3, 5}
MaxWeights == {10}

\* The weights given to WeightedRingT.Add
Weights == {0, 2, 3, 4, 11}

\* Every ring newly constructed: the Ring is its zero value, the others
\* come from NewRingP, NewRingT and NewWeightedRingT
InitRings(sizes, maxSizes, maxWeights) ==
    /\ ring = Ring_Zero
    /\ wrote = <<>>
    /\ got = <<>>
    /\ sizePlus1 \in sizes
    /\ ~NewRingP_panics(sizePlus1)
    /\ ringP = NewRingP(sizePlus1)
    /\ refP = <<>>
    /\ addedP = <<>>
    /\ onlyAdds = TRUE
    /\ \E m \in maxSizes : ~NewRingT_panics(m) /\ ringT = NewRingT(m)
    /\ refT = <<>>
    /\ \E w \in maxWeights : ringW = NewWeightedRingT(w)
    /\ refW = <<>>
    /\ nextID = 100
    /\ last = [ring |-> "none", op |-> "New"]

(***************************************************************************)
(* The byte ring: Write and Read.                                          *)
(***************************************************************************)
\* r.Write(truth[len(wrote) : len(wrote)+n])
Write(n) ==
    /\ Len(wrote) + n <= MaxBytes
    /\ \E b \in {TruthSlice(Len(wrote), n)} :
       \E w \in {Ring_Write(ring, b)} :
           /\ ring' = w.r
           /\ wrote' = wrote \o b
           /\ last' = [ring |-> "Ring", op |-> "Write", arg |-> n, b |-> b, n |-> w.n,
                       err |-> w.err, pre |-> ring,
                       \* the first DirectWrite returned a short slice
                       split |-> Ring_DirectWrite(ring, n).n # n,
                       grew |-> Len(w.r.data) # Len(ring.data)]
    /\ UNCHANGED <<got, varsP, varsT, varsW, nextID>>

\* buf := make([]byte, n); r.Read(buf)
Read(n) ==
    /\ \E rd \in {Ring_Read(ring, n)} :
           /\ ring' = rd.r
           /\ got' = got \o rd.buf
           /\ last' = [ring |-> "Ring", op |-> "Read", arg |-> n, buf |-> rd.buf, n |-> rd.n,
                       err |-> rd.err, pre |-> ring,
                       \* the call before was a Write of n bytes into an
                       \* empty ring
                       rt |-> /\ last.op = "Write"
                              /\ Ring_Len(last.pre) = 0
                              /\ last.arg = n,
                       rtB |-> IF last.op = "Write" THEN last.b ELSE <<>>,
                       rtSplit |-> last.op = "Write" /\ last.split,
                       rtGrew |-> last.op = "Write" /\ last.grew]
    /\ UNCHANGED <<wrote, varsP, varsT, varsW, nextID>>

InitByte == InitRings({4}, {5}, {10})

NextByte == \/ \E n \in Lens : Write(n)
            \/ \E n \in Lens : Read(n)

SpecByte == InitByte /\ [][NextByte]_vars

(***************************************************************************)
(* The byte ring: DirectWrite and DirectRead.  The caller fills the slice  *)
(* DirectWrite returns, and asks a second time for what a short slice left *)
(* over.                                                                   *)
(***************************************************************************)
\* copy(r.DirectWrite(n), truth[len(wrote):]); second says that the call
\* asks for the rest of the call before
DirectWriteCall(n, second) ==
    /\ Len(wrote) + n <= MaxBytes
    /\ \E d \in {Ring_DirectWrite(ring, n)} :
       \E b \in {TruthSlice(Len(wrote), d.n)} :
           /\ ring' = [d.r EXCEPT !.data = CopyInto(d.r.data, d.lo, d.n, b)]
           /\ wrote' = wrote \o b
           /\ last' = [ring |-> "Ring", op |-> "DirectWrite", arg |-> n,
                       lo |-> d.lo, n |-> d.n, ens |-> d.ens, pre |-> ring,
                       second |-> second,
                       firstArg |-> IF second THEN last.arg ELSE 0,
                       firstN |-> IF second THEN last.n ELSE 0]
    /\ UNCHANGED <<got, varsP, varsT, varsW, nextID>>

DirectWrite(n) == DirectWriteCall(n, FALSE)

\* s := r.DirectWrite(n); if len(s) < n { r.DirectWrite(n - len(s)) }
DirectWriteRest ==
    /\ last.ring = "Ring"
    /\ last.op = "DirectWrite"
    /\ ~last.second
    /\ last.n < last.arg
    /\ DirectWriteCall(last.arg - last.n, TRUE)

\* got = append(got, r.DirectRead(n)...)
DirectReadCall(n, second) ==
    /\ \E d \in {Ring_DirectRead(ring, n)} :
           /\ ring' = d.r
           /\ got' = got \o d.res
           /\ last' = [ring |-> "Ring", op |-> "DirectRead", arg |-> n,
                       res |-> d.res, pre |-> ring,
                       second |-> second,
                       firstArg |-> IF second THEN last.arg ELSE 0,
                       firstRes |-> IF second THEN last.res ELSE <<>>,
                       firstPre |-> IF second THEN last.pre ELSE ring]
    /\ UNCHANGED <<wrote, varsP, varsT, varsW, nextID>>

DirectRead(n) == DirectReadCall(n, FALSE)

\* s := r.DirectRead(n); if len(s) < n { r.DirectRead(n - len(s)) }
DirectReadRest ==
    /\ last.ring = "Ring"
    /\ last.op = "DirectRead"
    /\ ~last.second
    /\ Len(last.res) < last.arg
    /\ DirectReadCall(last.arg - Len(last.res), TRUE)

InitDirect == InitRings({4}, {5}, {10})

NextDirect == \/ \E n \in DirectWriteLens : DirectWrite(n)
              \/ DirectWriteRest
              \/ \E n \in DirectReadLens : DirectRead(n)
              \/ DirectReadRest

SpecDirect == InitDirect /\ [][NextDirect]_vars

(***************************************************************************)
(* RingP: Add and Next, with the reference list of TestRingP.              *)
(***************************************************************************)
\* add of TestRingP on val
RefP_add(val, capacity, t) ==
    IF Len(val) = capacity THEN Append(Tail(val), t) ELSE Append(val, t)

\* chomp of the tests on val
Ref_chomp(val) == IF Len(val) = 0 THEN val ELSE Tail(val)

PAdd ==
    /\ Len(addedP) < MaxAddsP
    /\ ringP' = RingP_Add(ringP, nextID)
    /\ refP' = RefP_add(refP, RingP_Capacity(ringP), nextID)
    /\ addedP' = Append(addedP, nextID)
    /\ nextID' = nextID + 1
    /\ last' = [ring |-> "RingP", op |-> "Add", item |-> nextID, pre |-> ringP]
    /\ UNCHANGED <<sizePlus1, onlyAdds, varsByte, varsT, varsW>>

PNext ==
    /\ \E nx \in {RingP_Next(ringP)} :
           /\ ringP' = nx.r
           /\ last' = [ring |-> "RingP", op |-> "Next", item |-> nx.item,
                       pre |-> ringP,
                       \* the call before was Peek(0), and what it returned
                       peeked |-> /\ last.ring = "RingP"
                                  /\ last.op = "Peek"
                                  /\ last.i = 0,
                       peekRes |-> IF last.ring = "RingP" /\ last.op = "Peek"
                                   THEN last.res ELSE 0]
    /\ refP' = Ref_chomp(refP)
    /\ onlyAdds' = FALSE
    /\ UNCHANGED <<sizePlus1, addedP, nextID, varsByte, varsT, varsW>>

\* ring.Peek(i), for the indices validate of TestRingP tries and the two
\* next to them
PPeek(i) ==
    /\ last' = [ring |-> "RingP", op |-> "Peek", i |-> i,
                res |-> RingP_Peek(ringP, i), pre |-> ringP,
                \* the call before was Peek(i) too, and what it returned
                again |-> /\ last.ring = "RingP"
                          /\ last.op = "Peek"
                          /\ last.i = i,
                prevRes |-> IF last.ring = "RingP" /\ last.op = "Peek"
                            THEN last.res ELSE 0]
    /\ UNCHANGED <<varsP, nextID, varsByte, varsT, varsW>>

InitP == InitRings(SizesP, {5}, {10})

NextP == PAdd \/ PNext

SpecP == InitP /\ [][NextP]_vars

(***************************************************************************)
(* RingT: Add and Next, with the reference list of TestRingT.              *)
(***************************************************************************)
\* add of TestRingT on val
RefT_add(val, maxSize, t) ==
    IF Len(val) = maxSize THEN Append(Tail(val), t) ELSE Append(val, t)

TAdd ==
    /\ nextID < 100 + MaxAddsT
    /\ ringT' = RingT_Add(ringT, nextID)
    /\ refT' = RefT_add(refT, RingT_MaxSize(ringT), nextID)
    /\ nextID' = nextID + 1
    /\ \E r1 \in {RingT_Add_evicted(ringT)} :
           last' = [ring |-> "RingT", op |-> "Add", item |-> nextID,
                    pre |-> ringT,
                    \* the ring after the first and the second statement
                    \* of Add
                    evicted |-> r1, grown |-> RingT_Add_grown(r1)]
    /\ UNCHANGED <<varsByte, varsP, varsW>>

TNext ==
    /\ \E nx \in {RingT_Next(ringT)} :
           /\ ringT' = nx.r
           /\ last' = [ring |-> "RingT", op |-> "Next", item |-> nx.item,
                       pre |-> ringT,
                       \* the call before was Peek(0), and what it returned
                       peeked |-> /\ last.ring = "RingT"
                                  /\ last.op = "Peek"
                                  /\ last.i = 0,
                       peekRes |-> IF last.ring = "RingT" /\ last.op = "Peek"
                                   THEN last.res ELSE 0]
    /\ refT' = Ref_chomp(refT)
    /\ UNCHANGED <<nextID, varsByte, varsP, varsW>>

\* ring.Peek(i), for the indices validate of TestRingT tries and the two
\* next to them
TPeek(i) ==
    /\ last' = [ring |-> "RingT", op |-> "Peek", i |-> i,
                res |-> RingT_Peek(ringT, i), pre |-> ringT,
                \* the call before was Peek(i) too, and what it returned
                again |-> /\ last.ring = "RingT"
                          /\ last.op = "Peek"
                          /\ last.i = i,
                prevRes |-> IF last.ring = "RingT" /\ last.op = "Peek"
                            THEN last.res ELSE 0]
    /\ UNCHANGED <<varsT, nextID, varsByte, varsP, varsW>>

InitT == InitRings({4}, MaxSizes, {10})

NextT == TAdd \/ TNext

SpecT == InitT /\ [][NextT]_vars

(***************************************************************************)
(* WeightedRingT: Add, Next and Peek, with the reference list of           *)
(* TestWeightedRingT.                                                      *)
(***************************************************************************)
RECURSIVE SumW(_)
\* valW: the sum of the weights of a list of <<id, weight>> pairs
SumW(val) == IF val = <<>> THEN 0 ELSE Head(val)[2] + SumW(Tail(val))

RECURSIVE RefW_drop(_, _, _)
\* for valW+weight > ring.MaxWeight && len(val) != 0 { ... val = val[1:] }
RefW_drop(val, maxWeight, weight) ==
    IF SumW(val) + weight > maxWeight /\ Len(val) # 0
    THEN RefW_drop(Tail(val), maxWeight, weight)
    ELSE val

\* add of TestWeightedRingT on val
RefW_add(val, maxWeight, weight, t) ==
    Append(RefW_drop(val, maxWeight, weight), <<t, weight>>)

WAdd(w) ==
    /\ nextID < 100 + MaxAddsW
    /\ ringW' = WeightedRingT_Add(ringW, w, nextID)
    /\ refW' = RefW_add(refW, ringW.MaxWeight, w, nextID)
    /\ nextID' = nextID + 1
    /\ last' = [ring |-> "WeightedRingT", op |-> "Add", w |-> w,
                item |-> nextID, pre |-> ringW,
                \* the ring after the first statement of Add
                grown |-> WeightedRingT_Add_grown(ringW)]
    /\ UNCHANGED <<varsByte, varsP, varsT>>

WNext ==
    /\ \E nx \in {WeightedRingT_Next(ringW)} :
           /\ ringW' = nx.r
           /\ last' = [ring |-> "WeightedRingT", op |-> "Next",
                       haveItem |-> nx.haveItem,
                       item |-> nx.item, weight |-> nx.weight, pre |-> ringW]
    /\ refW' = Ref_chomp(refW)
    /\ UNCHANGED <<nextID, varsByte, varsP, varsT>>

\* ring.Peek(i), for the indices validate of TestWeightedRingT tries
WPeek(i) ==
    /\ last' = [ring |-> "WeightedRingT", op |-> "Peek", i |-> i,
                res |-> WeightedRingT_Peek(ringW, i),
                pre |-> ringW]
    /\ UNCHANGED <<ringW, refW, nextID, varsByte, varsP, varsT>>

InitW == InitRings({4}, {5}, MaxWeights)

NextW == \/ \E w \in Weights : WAdd(w)
         \/ WNext
         \/ \E i \in -1..(Len(refW) + 1) : WPeek(i)

SpecW == InitW /\ [][NextW]_vars

(***************************************************************************)
(* The four rings, each with all its operations.  A run drives one ring,   *)
(* as each test does; the rings share nothing, so the other three stay as  *)
(* they were constructed.                                                  *)
(***************************************************************************)
\* The ring is as constructed
FreshRing == ring = Ring_Zero /\ wrote = <<>> /\ got = <<>>
FreshP    == ringP = NewRingP(4) /\ addedP = <<>> /\ onlyAdds
FreshT    == ringT = NewRingT(5) /\ refT = <<>>
FreshW    == ringW = NewWeightedRingT(10) /\ refW = <<>>

\* Any of the rings is constructed with any of its arguments; the others
\* with the arguments the specifications above give them
InitRings4 ==
    \/ InitRings(SizesP, {5}, {10})
    \/ InitRings({4}, MaxSizes, {10})
    \/ InitRings({4}, {5}, MaxWeights)

NextRings4 ==
    \/ FreshP /\ FreshT /\ FreshW /\ NextDirect
    \/ FreshRing /\ FreshT /\ FreshW
         /\ (PAdd \/ PNext \/ \E i \in -1..(Len(refP) + 1) : PPeek(i))
    \/ FreshRing /\ FreshP /\ FreshW
         /\ (TAdd \/ TNext \/ \E i \in -1..(Len(refT) + 1) : TPeek(i))
    \/ FreshRing /\ FreshP /\ FreshT /\ NextW

SpecRings4 == InitRings4 /\ [][NextRings4]_vars

(***************************************************************************)
(* Construction: NewRingP and NewRingT with any argument.                  *)
(***************************************************************************)
\* The arguments tried: the small integers, and the least and the greatest
\* int
NewArgs == (-MaxArg..MaxArg) \cup {-(UintMod \div 2), (UintMod \div 2) - 1}

\* ring = NewRingP[pod](s), which panics or gives the test its ring
NewP(s) ==
    /\ last' = [ring |-> "RingP", op |-> "NewRingP", arg |-> s,
                panics |-> NewRingP_panics(s)]
    /\ IF NewRingP_panics(s)
       THEN UNCHANGED varsP
       ELSE /\ ringP' = NewRingP(s)
            /\ sizePlus1' = s
            /\ refP' = <<>>
            /\ addedP' = <<>>
            /\ onlyAdds' = TRUE
    /\ UNCHANGED <<nextID, varsByte, varsT, varsW>>

\* ring = NewRingT[obj](m), which panics or gives the test its ring
NewT(m) ==
    /\ last' = [ring |-> "RingT", op |-> "NewRingT", arg |-> m,
                panics |-> NewRingT_panics(m)]
    /\ IF NewRingT_panics(m)
       THEN UNCHANGED varsT
       ELSE /\ ringT' = NewRingT(m)
            /\ refT' = <<>>
    /\ UNCHANGED <<nextID, varsByte, varsP, varsW>>

InitNew == InitRings({4}, {5}, {10})

NextNew == \/ \E s \in NewArgs : NewP(s)
           \/ \E m \in NewArgs : NewT(m)

SpecNew == InitNew /\ [][NextNew]_vars

(***************************************************************************)
(* Properties of the byte ring (SpecByte).                                 *)
(***************************************************************************)
\* C1: the bytes returned by the Reads, concatenated, are a prefix of the
\* bytes given to the Writes, concatenated; and a Read of len(B) bytes that
\* follows a Write of B into an empty ring returns exactly B.
C1_LosslessFIFO ==
    /\ IsPrefix(got, wrote)
    /\ (last.op = "Read" /\ last.rt) =>
            /\ last.n = last.arg
            /\ last.buf = last.rtB

\* A round trip whose Write grew the storage between its two DirectWrites
C1_Witness ==
    /\ last.op = "Read"
    /\ last.rt
    /\ last.rtGrew
    /\ last.rtSplit
    /\ last.n > 0

\* C9: Write(b) returns (len(b), nil), Len() grows by len(b), and the bytes
\* buffered before are still there, ahead of b.
C9_WriteIsTotal ==
    last.op = "Write" =>
        /\ last.n = last.arg
        /\ last.err = "nil"
        /\ Ring_Len(ring) = Ring_Len(last.pre) + last.arg
        /\ Ring_Content(ring) = Ring_Content(last.pre) \o last.b

\* A Write into a non-empty ring that took two DirectWrites
C9_Witness ==
    /\ last.op = "Write"
    /\ Ring_Len(last.pre) > 0
    /\ last.split
    /\ last.arg > 0

\* C10: Read(buf) on a ring holding L bytes copies the n = min(len(buf), L)
\* oldest bytes, reduces Len() by n, and its error is EOF exactly when the
\* ring was empty when called.
C10_ReadContract ==
    last.op = "Read" =>
        LET L == Ring_Len(last.pre)
            n == Min(last.arg, L)
        IN  /\ last.n = n
            /\ last.buf = SubSeq(Ring_Content(last.pre), 1, n)
            /\ Ring_Len(ring) = L - n
            /\ last.err \in {"EOF", "nil"}
            /\ last.err = "EOF" <=> L = 0

\* A short Read whose bytes wrapped around the physical end
C10_Witness ==
    /\ last.op = "Read"
    /\ last.pre.head < last.pre.tail
    /\ last.n > Len(last.pre.data) - last.pre.tail
    /\ last.n < last.arg
    /\ last.err = "nil"

(***************************************************************************)
(* Properties of RingP (SpecP).                                            *)
(***************************************************************************)
\* The last n elements of a list
LastN(q, n) == SubSeq(q, Len(q) - n + 1, Len(q))

\* C2: with C = sizePlus1 - 1, Len() <= C after every operation; the content
\* Peek(0) .. Peek(Len()-1) is that of a FIFO queue that drops its oldest
\* element when an Add finds it holding C elements; after Adds only it is
\* the last min(n, C) values added; the storage array keeps its size.
C2_BoundedRingIsCappedFIFO ==
    LET C == sizePlus1 - 1
    IN  /\ RingP_Len(ringP) <= C
        /\ RingP_Len(ringP) = Len(refP)
        /\ RingP_Content(ringP) = refP
        /\ onlyAdds =>
               RingP_Content(ringP) = LastN(addedP, Min(Len(addedP), C))
        /\ Len(ringP.items) = sizePlus1

\* C = 3, and A, B, C, D, E added: the content is [C, D, E]
C2_Witness ==
    /\ sizePlus1 = 4
    /\ onlyAdds
    /\ addedP = <<100, 101, 102, 103, 104>>
    /\ RingP_Content(ringP) = <<102, 103, 104>>

(***************************************************************************)
(* Properties of RingT (SpecT).                                            *)
(***************************************************************************)
\* C3: Len() <= maxSize; the content Peek(0) .. Peek(Len()-1) is that of a
\* FIFO list capped at maxSize with drop-oldest; Add evicts the oldest
\* element exactly when the ring was full before it; Next returns the
\* oldest element.
C3_GrowingRingIsCappedFIFO ==
    /\ RingT_Len(ringT) <= ringT.maxSize
    /\ RingT_Len(ringT) = Len(refT)
    /\ RingT_Content(ringT) = refT
    /\ last.op = "Add" =>
           RingT_Content(ringT) =
               Append(IF RingT_IsFull(last.pre)
                      THEN Tail(RingT_Content(last.pre))
                      ELSE RingT_Content(last.pre),
                      last.item)
    /\ last.op = "Next" =>
           /\ last.item = RingT_Peek(last.pre, 0)
           /\ RingT_Len(last.pre) > 0 =>
                  /\ last.item = Head(RingT_Content(last.pre))
                  /\ RingT_Content(ringT) = Tail(RingT_Content(last.pre))

\* An Add that evicted, on a ring whose array has grown to 8 slots and
\* whose indices have wrapped
C3_Witness ==
    /\ last.op = "Add"
    /\ RingT_IsFull(last.pre)
    /\ Len(ringT.items) = 8
    /\ ringT.head < ringT.tail
    /\ RingT_Len(ringT) = 5

(***************************************************************************)
(* Properties of WeightedRingT (SpecW).                                    *)
(***************************************************************************)
\* The weights of a list of <<id, weight>> pairs
WeightsOf(val) == [i \in 1..Len(val) |-> val[i][2]]

\* C4: the content (elements with their weights, oldest first) and Len()
\* equal a reference FIFO list in which Add drops oldest entries while
\* total + w > MaxWeight and the list is non-empty, then appends (x, w), and
\* Next removes and returns the oldest entry with its weight.
C4_WeightedRingIsWeightCappedFIFO ==
    /\ WeightedRingT_Len(ringW) = Len(refW)
    /\ WeightedRingT_Content(ringW) = refW
    /\ last.op = "Add" =>
           WeightedRingT_Content(ringW) =
               RefW_add(WeightedRingT_Content(last.pre), ringW.MaxWeight,
                        last.w, last.item)
    /\ last.op = "Next" =>
           LET before == WeightedRingT_Content(last.pre)
           IN  IF before = <<>>
               THEN ~last.haveItem /\ last.item = 0 /\ last.weight = 0
               ELSE /\ last.haveItem
                    /\ <<last.item, last.weight>> = Head(before)
                    /\ WeightedRingT_Content(ringW) = Tail(before)

\* MaxWeight = 10, weights 2, 3, 4 held, Add of weight 3: only the weight-2
\* element goes, [3, 4, 3] stay, totalling 10
C4_Witness ==
    /\ ringW.MaxWeight = 10
    /\ last.op = "Add"
    /\ last.w = 3
    /\ WeightsOf(WeightedRingT_Content(last.pre)) = <<2, 3, 4>>
    /\ WeightsOf(WeightedRingT_Content(ringW)) = <<3, 4, 3>>
    /\ WeightedRingT_Weight(ringW) = 10

\* C5: Weight() is the sum of the stored weights of the live elements, and
\* is 0 whenever Len() is 0.
C5_WeightIsSumOfLive ==
    /\ WeightedRingT_Weight(ringW) = SumW(WeightedRingT_Content(ringW))
    /\ WeightedRingT_Len(ringW) = 0 => WeightedRingT_Weight(ringW) = 0

\* An Add that grew the arrays of a non-empty ring and then evicted
C5_Witness ==
    /\ last.op = "Add"
    /\ Len(last.pre.items) > 0
    /\ Len(ringW.items) > Len(last.pre.items)
    /\ WeightedRingT_Len(ringW) <= WeightedRingT_Len(last.pre)
    /\ WeightedRingT_Weight(ringW) > 0

\* C6: right after Add(w, x), Weight() <= MaxWeight, or the ring holds
\* exactly x, whose own weight w exceeds MaxWeight.
C6_AfterAddFitsOrAlone ==
    last.op = "Add" =>
        \/ WeightedRingT_Weight(ringW) <= ringW.MaxWeight
        \/ /\ WeightedRingT_Len(ringW) = 1
           /\ WeightedRingT_Content(ringW) = <<<<last.item, last.w>>>>
           /\ last.w > ringW.MaxWeight

\* An over-weight Add into a ring that held several elements
C6_Witness ==
    /\ last.op = "Add"
    /\ WeightedRingT_Len(last.pre) >= 2
    /\ WeightedRingT_Weight(ringW) > ringW.MaxWeight

\* C7: Weight() <= MaxWeight in every reachable state.
C7_WeightNeverExceedsMax ==
    WeightedRingT_Weight(ringW) <= ringW.MaxWeight

C11_DirectWriteContract ==
    (last.ring = "Ring" /\ last.op = "DirectWrite") =>
        LET cap == Len(ring.data)
            k   == Min(last.arg, cap - last.ens.head)
        IN  /\ cap = Len(last.ens.data)
            /\ cap > 0
            /\ last.lo = last.ens.head
            /\ last.n = k
            /\ last.lo + k <= cap
            /\ ring.head = (last.ens.head + k) % cap
            /\ Ring_Len(ring) = Ring_Len(last.pre) + k
            /\ Ring_Content(ring)
                 = Ring_Content(last.pre) \o TruthSlice(Len(wrote) - k, k)
            /\ last.second => last.n = last.arg

\* TestDirectWrite: 5 bytes are left before the end of the storage,
\* DirectWrite(9) returns 5 bytes and DirectWrite(4) returns 4
C11_Witness ==
    /\ last.ring = "Ring"
    /\ last.op = "DirectWrite"
    /\ last.second
    /\ last.firstArg = 9
    /\ last.firstN = 5
    /\ last.n = 4

\* C12: DirectRead(n) returns the k = min(n, Len(), cap - tail) oldest bytes,
\* the window of the storage that starts at tail; tail advances by k modulo
\* cap; head and the storage stay as they are; the slice is empty when the
\* ring is empty or n <= 0; and DirectRead(n) followed by DirectRead(n - k)
\* deliver the min(n, Len()) oldest bytes in order.
C12_DirectReadContract ==
    (last.ring = "Ring" /\ last.op = "DirectRead") =>
        LET pre == last.pre
            cap == Len(pre.data)
            L   == Ring_Len(pre)
            k   == IF last.arg <= 0 \/ L = 0 THEN 0
                   ELSE Min(last.arg, Min(L, cap - pre.tail))
        IN  /\ Len(last.res) = k
            /\ last.res = Slice(pre.data, pre.tail, pre.tail + k)
            /\ last.res = SubSeq(Ring_Content(pre), 1, k)
            /\ ring.tail = IF cap = 0 THEN pre.tail ELSE (pre.tail + k) % cap
            /\ ring.head = pre.head
            /\ ring.data = pre.data
            /\ last.second =>
                 last.firstRes \o last.res
                   = SubSeq(Ring_Content(last.firstPre), 1,
                            Min(last.firstArg, Ring_Len(last.firstPre)))

\* Two DirectReads that deliver data wrapped around the end of the storage
C12_Witness ==
    /\ last.ring = "Ring"
    /\ last.op = "DirectRead"
    /\ last.second
    /\ last.firstPre.head < last.firstPre.tail
    /\ Len(last.firstRes) > 0
    /\ Len(last.res) > 0

\* The sizes reached from c by doubling
Doublings(c) == {c * (2 ^ j) : j \in 0..8}

\* The least member of a set of numbers
Least(S) == CHOOSE x \in S : \A y \in S : x <= y

\* C16: DirectWrite(n) on a ring that holds L bytes in a storage of size c
\* leaves the storage at size c when L + n + 1 <= c, and otherwise at the
\* least size >= L + n + 1 reached by doubling from max(c, 64).
C16_GrowthRequirement ==
    (last.ring = "Ring" /\ last.op = "DirectWrite") =>
        LET L    == Ring_Len(last.pre)
            c    == Len(last.pre.data)
            need == L + last.arg + 1
            from == IF c < DefaultSize THEN DefaultSize ELSE c
        IN  Len(last.ens.data)
              = IF need <= c THEN c
                ELSE Least({x \in Doublings(from) : x >= need})

\* C17: when DirectWrite grows the storage, the ring ensureCapacity leaves
\* has tail <= head, the Len() and the unread bytes in order of the ring
\* before; and if that ring had head < tail, its bytes [0, head) are now
\* at the old capacity and head is larger by the old capacity.
C17_GrowthNormalises ==
    (/\ last.ring = "Ring"
     /\ last.op = "DirectWrite"
     /\ Len(last.ens.data) # Len(last.pre.data)) =>
        LET pre    == last.pre
            ens    == last.ens
            orgCap == Len(pre.data)
        IN  /\ Len(ens.data) > orgCap
            /\ ens.tail <= ens.head
            /\ ens.tail = pre.tail
            /\ Ring_Len(ens) = Ring_Len(pre)
            /\ Ring_Len(ens) = ens.head - ens.tail
            /\ Ring_Content(ens) = Ring_Content(pre)
            /\ Slice(ens.data, ens.tail, ens.head) = Ring_Content(pre)
            /\ IF pre.head < pre.tail
               THEN /\ ens.head = pre.head + orgCap
                    /\ Slice(ens.data, orgCap, orgCap + pre.head)
                         = Slice(pre.data, 0, pre.head)
               ELSE ens.head = pre.head

\* A growth of a ring whose unread bytes wrapped around the end
C17_Witness ==
    /\ last.ring = "Ring"
    /\ last.op = "DirectWrite"
    /\ Len(last.ens.data) # Len(last.pre.data)
    /\ last.pre.head < last.pre.tail
    /\ last.pre.head > 0

(***************************************************************************)
(* Properties of the four rings (SpecRings4).                              *)
(***************************************************************************)
\* C13: Next() on an empty ring returns nil (RingT), the zero value (RingP)
\* or (false, nil, 0) (WeightedRingT), and Peek(i) of RingT and RingP with
\* i < 0 or i >= Len() returns nil / the zero value; the ring is afterwards
\* what it was before, also a RingT without storage.
C13_AbsentQueries ==
    /\ (last.ring = "RingT" /\ last.op = "Next" /\ last.pre.head = last.pre.tail)
         => (last.item = 0 /\ ringT = last.pre)
    /\ (last.ring = "RingP" /\ last.op = "Next" /\ last.pre.head = last.pre.tail)
         => (last.item = 0 /\ ringP = last.pre)
    /\ (last.ring = "WeightedRingT" /\ last.op = "Next"
          /\ last.pre.head = last.pre.tail)
         => (/\ ~last.haveItem
             /\ last.item = 0
             /\ last.weight = 0
             /\ ringW = last.pre)
    /\ (last.ring = "RingT" /\ last.op = "Peek"
          /\ (last.i < 0 \/ last.i >= Len(refT)))
         => (last.res = 0 /\ ringT = last.pre /\ RingT_Len(ringT) = Len(refT))
    /\ (last.ring = "RingP" /\ last.op = "Peek"
          /\ (last.i < 0 \/ last.i >= Len(refP)))
         => (last.res = 0 /\ ringP = last.pre /\ RingP_Len(ringP) = Len(refP))

\* Peek(Len()) on a RingP whose slot at head still holds an element that
\* was removed
C13_Witness ==
    /\ last.ring = "RingP"
    /\ last.op = "Peek"
    /\ last.i = Len(refP)
    /\ At(ringP.items, ringP.head) # 0

\* C14: Peek(i) of RingT and RingP leaves the ring as it was, a second
\* Peek(i) returns what the first returned, and Next() returns what Peek(0)
\* returns on the ring before it (nil / the zero value on an empty ring).
C14_PeekIsPureAndAgreesWithNext ==
    /\ (last.ring = "RingT" /\ last.op = "Peek")
         => (ringT = last.pre /\ (last.again => last.res = last.prevRes))
    /\ (last.ring = "RingP" /\ last.op = "Peek")
         => (ringP = last.pre /\ (last.again => last.res = last.prevRes))
    /\ (last.ring = "RingT" /\ last.op = "Next")
         => (/\ last.item = RingT_Peek(last.pre, 0)
             /\ last.peeked => last.item = last.peekRes
             /\ last.pre.head = last.pre.tail => last.item = 0)
    /\ (last.ring = "RingP" /\ last.op = "Next")
         => (/\ last.item = RingP_Peek(last.pre, 0)
             /\ last.peeked => last.item = last.peekRes
             /\ last.pre.head = last.pre.tail => last.item = 0)

\* Peek(0) and then Next() on a RingT that holds two elements or more
C14_Witness ==
    /\ last.ring = "RingT"
    /\ last.op = "Next"
    /\ last.peeked
    /\ RingT_Len(last.pre) >= 2

(***************************************************************************)
(* Properties of construction (SpecNew).                                   *)
(***************************************************************************)
\* n is 1, 2, 4, 8, ...
IsPowerOfTwo(n) == \E j \in 0..14 : n = 2 ^ j

\* C15: NewRingP(sizePlus1) panics exactly when sizePlus1 is no power of two
\* or sizePlus1 < 2, and otherwise returns an empty ring of capacity
\* sizePlus1 - 1; NewRingT(maxSize) panics exactly when maxSize < 1.
C15_ConstructionRejects ==
    /\ (last.ring = "RingP" /\ last.op = "NewRingP") =>
         /\ last.panics <=> (~IsPowerOfTwo(last.arg) \/ last.arg < 2)
         /\ ~last.panics =>
              /\ RingP_Len(ringP) = 0
              /\ RingP_Capacity(ringP) = last.arg - 1
              /\ Len(ringP.items) = last.arg
              /\ ~RingP_IsFull(ringP)
    /\ (last.ring = "RingT" /\ last.op = "NewRingT") =>
         /\ last.panics <=> (last.arg < 1)
         /\ ~last.panics =>
              /\ RingT_Len(ringT) = 0
              /\ RingT_MaxSize(ringT) = last.arg

\* NewRingP(0): no bit of 0 & -1 is set, and 0 < 2
C15_Witness ==
    /\ last.ring = "RingP"
    /\ last.op = "NewRingP"
    /\ last.arg = 0
    /\ last.panics

\* The larger of two numbers
Max(a, b) == IF a > b THEN a ELSE b

\* C18: Add of RingT (after its eviction at maxSize) and of WeightedRingT
\* (before its eviction by weight) grows the array exactly when it has no
\* slot or Len() == len(items) - 1; the new array has twice the length, at
\* least 2 (RingT) or 4 (WeightedRingT); the n elements that remain are at
\* the indices 0..n-1, oldest first, with tail = 0 and head = n, before the
\* new item is written; and every weight of WeightedRingT is at the index of
\* its element, the running weight being what it was.
C18_ReferenceRingGrowth ==
    /\ (last.ring = "RingT" /\ last.op = "Add") =>
         LET ev   == last.evicted
             gr   == last.grown
             kept == SubSeq(refT, 1, Len(refT) - 1)
             n    == Len(kept)
         IN  /\ RingT_Content(ev) = kept
             /\ (Len(gr.items) # Len(ev.items))
                  <=> (Len(ev.items) = 0 \/ n = Len(ev.items) - 1)
             /\ Len(gr.items) = Len(ev.items) => gr = ev
             /\ Len(gr.items) # Len(ev.items) =>
                  /\ Len(gr.items) = Max(2, 2 * Len(ev.items))
                  /\ gr.mask = Len(gr.items) - 1
                  /\ gr.tail = 0
                  /\ gr.head = n
                  /\ gr.items = kept \o Zeros(Len(gr.items) - n)
             /\ ringT.items = Put(gr.items, gr.head, last.item)
    /\ (last.ring = "WeightedRingT" /\ last.op = "Add") =>
         LET pre  == last.pre
             gr   == last.grown
             kept == WeightedRingT_Content(pre)
             n    == Len(kept)
         IN  /\ n = WeightedRingT_Len(pre)
             /\ (Len(gr.items) # Len(pre.items))
                  <=> (Len(pre.items) = 0 \/ n = Len(pre.items) - 1)
             /\ Len(gr.items) = Len(pre.items) => gr = pre
             /\ Len(gr.items) # Len(pre.items) =>
                  /\ Len(gr.items) = Max(4, 2 * Len(pre.items))
                  /\ Len(gr.weights) = Len(gr.items)
                  /\ gr.tail = 0
                  /\ gr.head = n
                  /\ \A i \in 0..(n - 1) :
                         <<At(gr.items, i), At(gr.weights, i)>> = kept[i + 1]
                  /\ \A i \in n..(Len(gr.items) - 1) : At(gr.items, i) = 0
                  /\ gr.weight = pre.weight
                  /\ gr.weight = SumW(kept)

\* A WeightedRingT of 4 slots that holds 3 elements around the end of its
\* array grows to 8 slots
C18_Witness ==
    /\ last.ring = "WeightedRingT"
    /\ last.op = "Add"
    /\ Len(last.grown.items) = 8
    /\ Len(last.pre.items) = 4
    /\ last.pre.head < last.pre.tail
    /\ last.pre.weight > 0

\* The indices of the slots from tail up to head, around the end of an
\* array of cap slots
LiveRange(tail, head, cap) ==
    IF tail <= head THEN tail..(head - 1)
    ELSE (tail..(cap - 1)) \cup (0..(head - 1))

\* The elements of a sequence
Range(s) == {s[i] : i \in 1..Len(s)}

\* C19: in every state of RingT and of WeightedRingT every slot of items
\* outside the slots from tail up to head holds nil, and no element that
\* was removed (by Next, by an eviction of Add, by the drain of a growth) is
\* in any slot; the slot a Next() vacates holds nil after it.
C19_VacatedSlotsAreNil ==
    /\ \A i \in 0..(Len(ringT.items) - 1) :
           i \notin LiveRange(ringT.tail, ringT.head, Len(ringT.items))
             => At(ringT.items, i) = 0
    /\ Range(ringT.items) \ {0} = Range(refT)
    /\ \A i \in 0..(Len(ringW.items) - 1) :
           i \notin LiveRange(ringW.tail, ringW.head, Len(ringW.items))
             => At(ringW.items, i) = 0
    /\ Range(ringW.items) \ {0} = {p[1] : p \in Range(refW)}
    /\ (last.ring = "RingT" /\ last.op = "Next" /\ RingT_Len(last.pre) > 0)
         => (/\ At(last.pre.items, last.pre.tail) = last.item
             /\ last.item # 0
             /\ At(ringT.items, last.pre.tail) = 0)
    /\ (last.ring = "WeightedRingT" /\ last.op = "Next" /\ last.haveItem)
         => (/\ At(last.pre.items, last.pre.tail) = last.item
             /\ last.item # 0
             /\ At(ringW.items, last.pre.tail) = 0)
    \* the array a growth leaves behind holds nil in every slot
    /\ (/\ last.ring = "RingT"
        /\ last.op = "Add"
        /\ Len(last.grown.items) # Len(last.evicted.items))
         => RingT_drain(last.evicted, Zeros(Len(last.grown.items)), 0,
                        RingT_Len(last.evicted)).r.items
              = Zeros(Len(last.evicted.items))
    /\ (/\ last.ring = "WeightedRingT"
        /\ last.op = "Add"
        /\ Len(last.grown.items) # Len(last.pre.items))
         => WeightedRingT_drain(last.pre, Zeros(Len(last.grown.items)),
                                Zeros(Len(last.grown.items)), 0,
                                WeightedRingT_Len(last.pre)).r.items
              = Zeros(Len(last.pre.items))

\* An Add to a RingT at maxSize: the slot of the element it evicted holds
\* nil afterwards
C19_Witness ==
    /\ last.ring = "RingT"
    /\ last.op = "Add"
    /\ RingT_Len(last.pre) = last.pre.maxSize
    /\ Len(ringT.items) = Len(last.pre.items)
    /\ At(last.pre.items, last.pre.tail) # 0
    /\ At(ringT.items, last.pre.tail) = 0

\* head, tail and the number of elements held fit an array of cap slots,
\* one of which stays free
WellFormed(cap, head, tail, count) ==
    /\ cap = 0 \/ IsPowerOfTwo(cap)
    /\ cap > 0 => (0 <= head /\ head < cap /\ 0 <= tail /\ tail < cap)
    /\ cap = 0 => (head = 0 /\ tail = 0 /\ count = 0)
    /\ cap > 0 => count <= cap - 1
    /\ count = 0 <=> head = tail

\* C20: in every state of each of the four rings the length cap of the
\* array is 0 or a power of two; it is 0 only while the ring is as
\* constructed, never for RingP and never after a write to a Ring or an Add
\* to a RingT or WeightedRingT, and at least 64 for a Ring otherwise; head
\* and tail are below cap; at most cap - 1 elements are held; and the ring
\* holds none exactly when head == tail.
C20_StructuralInvariant ==
    /\ WellFormed(Len(ring.data), ring.head, ring.tail, Len(wrote) - Len(got))
    /\ Len(ring.data) = 0 \/ Len(ring.data) >= DefaultSize
    /\ Len(ring.data) = 0 =>
         (/\ ring = Ring_Zero
          /\ wrote = <<>>
          /\ ~(last.ring = "Ring" /\ last.op \in {"Write", "DirectWrite"}))
    /\ WellFormed(Len(ringP.items), ringP.head, ringP.tail, Len(refP))
    /\ Len(ringP.items) = sizePlus1
    /\ WellFormed(Len(ringT.items), ringT.head, ringT.tail, Len(refT))
    /\ Len(ringT.items) = 0 =>
         (/\ ringT = NewRingT(ringT.maxSize)
          /\ ~(last.ring = "RingT" /\ last.op = "Add"))
    /\ WellFormed(Len(ringW.items), ringW.head, ringW.tail, Len(refW))
    /\ Len(ringW.weights) = Len(ringW.items)
    /\ Len(ringW.items) = 0 =>
         (/\ ringW = NewWeightedRingT(ringW.MaxWeight)
          /\ ~(last.ring = "WeightedRingT" /\ last.op = "Add"))

\* A RingT that holds len(items) - 1 elements around the end of its array
C20_Witness ==
    /\ last.ring = "RingT"
    /\ Len(ringT.items) > 0
    /\ Len(refT) = Len(ringT.items) - 1
    /\ ringT.head < ringT.tail

(***************************************************************************)
(* Len() in unsigned arithmetic (SpecRings4), the window of DirectWrite    *)
(* (SpecDirect) and the size of the array of RingT (SpecT).                *)
(***************************************************************************)
\* C21: Len(), which is (head - tail) & mask with the subtraction modulo
\* 2^w, is the number of elements held, in every state of each of the four
\* rings: also where head < tail, and on a Ring or a WeightedRingT without
\* array, whose mask is 0 - 1 = 2^w - 1 and whose Len() is 0.
C21_LenIsCount ==
    /\ Ring_Len(ring) = Len(wrote) - Len(got)
    /\ RingP_Len(ringP) = Len(refP)
    /\ RingT_Len(ringT) = Len(refT)
    /\ WeightedRingT_Len(ringW) = Len(refW)
    /\ ring.head < ring.tail =>
         /\ USub(ring.head, ring.tail) = UintMod - (ring.tail - ring.head)
         /\ Ring_Len(ring) = Len(ring.data) - (ring.tail - ring.head)
    /\ ringW.head < ringW.tail =>
         WeightedRingT_Len(ringW)
           = Len(ringW.items) - (ringW.tail - ringW.head)
    /\ Len(ring.data) = 0 =>
         (Ring_mask(ring) = UintMod - 1 /\ Ring_Len(ring) = 0)
    /\ Len(ringW.items) = 0 =>
         (WeightedRingT_mask(ringW) = UintMod - 1
            /\ WeightedRingT_Len(ringW) = 0)

\* A Ring that holds bytes around the end of its storage: head - tail
\* underflows
C21_Witness ==
    /\ last.ring = "Ring"
    /\ ring.head < ring.tail
    /\ ring.head > 0
    /\ Len(wrote) - Len(got) > 0

\* C22: the window [head, head + k) DirectWrite returns, in the storage as
\* the call has grown it, has no index in common with the slots of the
\* bytes written and not read before the call; those bytes are what they
\* were after the window is filled; and at most cap - 1 bytes are held
\* after the call.
C22_WindowIsFree ==
    (last.ring = "Ring" /\ last.op = "DirectWrite") =>
        LET ens    == last.ens
            cap    == Len(ens.data)
            window == last.lo..(last.lo + last.n - 1)
            live   == LiveRange(ens.tail, ens.head, cap)
            held   == Len(wrote) - last.n - Len(got)
        IN  /\ window \cap live = {}
            /\ window \subseteq 0..(cap - 1)
            /\ Cardinality(live) = held
            /\ Len(wrote) - Len(got) <= Len(ring.data) - 1
            /\ Ring_Content(ens) = Ring_Content(last.pre)
            /\ \A i \in live : At(ring.data, i) = At(ens.data, i)
            /\ SubSeq(Ring_Content(ring), 1, held) = Ring_Content(last.pre)

\* A DirectWrite that returns bytes of a ring whose data is around the end
\* of the storage, which does not grow
C22_Witness ==
    /\ last.ring = "Ring"
    /\ last.op = "DirectWrite"
    /\ last.pre.head < last.pre.tail
    /\ Len(last.ens.data) = Len(last.pre.data)
    /\ last.n > 0

\* C23: the array of a RingT of maxSize M is never longer than the least
\* power of two above M, hence never longer than 2 * M; an Add to a ring
\* that holds M elements, or whose array is longer than M, leaves the
\* length of the array as it is.
C23_ArrayBoundedByMaxSize ==
    LET M == ringT.maxSize
    IN  /\ Len(ringT.items)
             <= Least({x \in Doublings(1) : x > M})
        /\ Len(ringT.items) <= 2 * M
        /\ (last.ring = "RingT" /\ last.op = "Add"
              /\ (RingT_Len(last.pre) = M \/ Len(last.pre.items) > M))
             => Len(ringT.items) = Len(last.pre.items)

\* An Add to a RingT of maxSize 5 that holds 5 elements in 8 slots
C23_Witness ==
    /\ last.ring = "RingT"
    /\ last.op = "Add"
    /\ ringT.maxSize = 5
    /\ RingT_Len(last.pre) = 5
    /\ Len(ringT.items) = 8

=============================================================================
